---- MODULE Spec2Model ----
(***************************************************************************)
(* Finite-field elements (src/src/ecc/finite_field.rs) and elliptic-curve  *)
(* points (src/src/ecc/point.rs) as a machine of calls: a caller invokes   *)
(* one public operation at a time on values the constructors have          *)
(* returned, and the machine records the call and what it returned.        *)
(*                                                                         *)
(* Machine integers keep a width.  usize and isize are one machine word of *)
(* UsizeBits bits, i32 is I32Bits bits (narrower than the word, as on a    *)
(* 64-bit target).  The widths are scaled down so that the whole range can *)
(* be enumerated; every overflow seen here happens on the real widths at   *)
(* the correspondingly larger operands.                                    *)
(*                                                                         *)
(* An arithmetic overflow is not one outcome: with overflow checks (the    *)
(* dev profile) the operation panics, without them (the release profile)   *)
(* it wraps.  overflow_checks is chosen once, in Init.                     *)
(***************************************************************************)
EXTENDS Integers, Sequences, FiniteSets, TLC

VARIABLES overflow_checks, call, ret, pc, exp

vars == <<overflow_checks, call, ret, pc, exp>>

(* ------------------------------ bounds -------------------------------- *)
UsizeBits == 5
I32Bits == 4
MaxPrime == 17
MaxCoord == 4

(* -------------------------- machine integers -------------------------- *)
UsizeMod == 2 ^ UsizeBits
UsizeMax == UsizeMod - 1
IsizeMin == 0 - (2 ^ (UsizeBits - 1))
IsizeMax == (2 ^ (UsizeBits - 1)) - 1
I32Mod == 2 ^ I32Bits
I32Min == 0 - (2 ^ (I32Bits - 1))
I32Max == (2 ^ (I32Bits - 1)) - 1

(* the value of an out-of-range signed result after two's-complement wrap *)
WrapSigned(v, min, mod) == ((v - min) % mod) + min

(* outcomes of a call *)
Ok(v) == [st |-> "ok", val |-> v]
Panic(m) == [st |-> "panic", msg |-> m]
Pending == [st |-> "pending"]
IsOk(r) == r.st = "ok"
IsPanic(r) == r.st = "panic"

(* One usize operation whose exact result is v: panics or wraps. *)
UsizeArith(v, checks) ==
    IF v >= 0 /\ v <= UsizeMax THEN Ok(v)
    ELSE IF checks THEN Panic("overflow")
    ELSE Ok(v % UsizeMod)

(* One isize operation whose exact result is v. *)
IsizeArith(v, checks) ==
    IF v >= IsizeMin /\ v <= IsizeMax THEN Ok(v)
    ELSE IF checks THEN Panic("overflow")
    ELSE Ok(WrapSigned(v, IsizeMin, UsizeMod))

(* One i32 operation whose exact result is v. *)
I32Arith(v, checks) ==
    IF v >= I32Min /\ v <= I32Max THEN Ok(v)
    ELSE IF checks THEN Panic("overflow")
    ELSE Ok(WrapSigned(v, I32Min, I32Mod))

(* `x as i32` for a usize x: truncation to the low bits, read as signed. *)
AsI32(x) == WrapSigned(x, I32Min, I32Mod)

(* usize::pow(base, e): repeated multiplication in the word; it panics      *)
(* under overflow checks as soon as a product leaves the word.              *)
RECURSIVE UsizePow(_, _, _)
UsizePow(base, e, checks) ==
    IF e = 0 THEN Ok(1)
    ELSE LET r == UsizePow(base, e - 1, checks)
         IN  IF IsPanic(r) THEN r ELSE UsizeArith(r.val * base, checks)

(* -------------------------- FiniteField ------------------------------- *)
FF(n, p) == [num |-> n, prime |-> p]

(* FiniteField::new *)
FiniteFieldNew(num, prime) ==
    IF num >= prime THEN Panic("not in field range")
    ELSE Ok(FF(num, prime))

(* the arithmetic result r reduced mod prime and handed to new *)
ReduceNew(r, prime) ==
    IF IsPanic(r) THEN r ELSE FiniteFieldNew(r.val % prime, prime)

(* impl Add for FiniteField *)
FiniteFieldAdd(self, rhs, checks) ==
    IF self.prime # rhs.prime THEN Panic("different fields")
    ELSE ReduceNew(UsizeArith(self.num + rhs.num, checks), self.prime)

(* impl Sub for FiniteField *)
FiniteFieldSub(self, rhs, checks) ==
    IF self.prime # rhs.prime THEN Panic("different fields")
    ELSE LET a_minus_b ==
                 IF self.num > rhs.num
                 THEN UsizeArith(self.num - rhs.num, checks)
                 ELSE LET s == UsizeArith(self.prime + self.num, checks)
                      IN  IF IsPanic(s) THEN s
                          ELSE UsizeArith(s.val - rhs.num, checks)
         IN  ReduceNew(a_minus_b, self.prime)

(* impl Mul for FiniteField *)
FiniteFieldMul(self, rhs, checks) ==
    IF self.prime # rhs.prime THEN Panic("different fields")
    ELSE ReduceNew(UsizeArith(self.num * rhs.num, checks), self.prime)

(* FiniteField::pow after its loop: usize::pow, then new *)
PowFinish(self, e, checks) ==
    ReduceNew(UsizePow(self.num, e, checks), self.prime)

(* the increment of the loop body: self.prime as i32 - 1 *)
PowIncrement(self, checks) == I32Arith(AsI32(self.prime) - 1, checks)

(* the loop body: exp += self.prime as i32 - 1 *)
PowBodyStep(self, e, checks) ==
    LET inc == PowIncrement(self, checks)
    IN  IF IsPanic(inc) THEN inc ELSE I32Arith(e + inc.val, checks)

(* ------------------------------ Point --------------------------------- *)
None == << >>
Some(x) == << x >>
IsNone(o) == o = None
IsSome(o) == o # None
Unwrap(o) == o[1]

(* isize::pow(base, e): repeated multiplication in the word *)
RECURSIVE IsizePow(_, _, _)
IsizePow(base, e, checks) ==
    IF e = 0 THEN Ok(1)
    ELSE LET r == IsizePow(base, e - 1, checks)
         IN  IF IsPanic(r) THEN r ELSE IsizeArith(r.val * base, checks)

(* rhs of the curve equation: isize::pow(x, 3) + (a * x) + b, left to right *)
CurveRhs(x, a, b, checks) ==
    LET cube == IsizePow(x, 3, checks)
        ax == IsizeArith(a * x, checks)
    IN  IF IsPanic(cube) THEN cube
        ELSE IF IsPanic(ax) THEN ax
        ELSE LET s == IsizeArith(cube.val + ax.val, checks)
             IN  IF IsPanic(s) THEN s ELSE IsizeArith(s.val + b, checks)

Pt(x_opt, y_opt, a, b) == [x_opt |-> x_opt, y_opt |-> y_opt, a |-> a, b |-> b]

(* Point::new *)
PointNew(x_opt, y_opt, a, b, checks) ==
    IF IsSome(x_opt) /\ IsSome(y_opt)
    THEN LET lhs == IsizePow(Unwrap(y_opt), 2, checks)
             rhs == CurveRhs(Unwrap(x_opt), a, b, checks)
         IN  IF IsPanic(lhs) THEN lhs
             ELSE IF IsPanic(rhs) THEN rhs
             ELSE IF lhs.val # rhs.val THEN Panic("is not on the curve")
             ELSE Ok(Pt(x_opt, y_opt, a, b))
    ELSE IF IsNone(x_opt) /\ IsNone(y_opt)
    THEN Ok(Pt(x_opt, y_opt, a, b))
    ELSE Panic("Both x and y coordinate should be either Some or None")

(* PointAdd with the two identity branches returning the wrong operand *)
PointAddSwapped(self, rhs) ==
    IF self.a # rhs.a \/ self.b # rhs.b THEN Panic("not on the same curve")
    ELSE IF IsNone(self.x_opt) THEN Ok(self)
    ELSE IF IsNone(rhs.x_opt) THEN Ok(rhs)
    ELSE Panic("not yet implemented")

(* PointAdd with the identity cases taken before the curve check *)
PointAddIdentityFirst(self, rhs) ==
    IF IsNone(self.x_opt) THEN Ok(rhs)
    ELSE IF IsNone(rhs.x_opt) THEN Ok(self)
    ELSE IF self.a # rhs.a \/ self.b # rhs.b THEN Panic("not on the same curve")
    ELSE Panic("not yet implemented")

(* impl Add for Point *)
PointAdd(self, rhs) ==
    IF self.a # rhs.a \/ self.b # rhs.b THEN Panic("not on the same curve")
    ELSE IF IsNone(self.x_opt) THEN Ok(rhs)
    ELSE IF IsNone(rhs.x_opt) THEN Ok(self)
    ELSE Panic("not yet implemented")

(* ------------------------------ inputs -------------------------------- *)
PrimeInputs == 0 .. MaxPrime
I32s == I32Min .. I32Max

(* the elements FiniteField::new returns *)
Elements ==
    { FiniteFieldNew(n, p).val :
        <<n, p>> \in { q \in PrimeInputs \X PrimeInputs :
                         IsOk(FiniteFieldNew(q[1], q[2])) } }

Coords == (0 - MaxCoord) .. MaxCoord
OptCoords == {None} \cup { Some(x) : x \in Coords }

(* the points Point::new returns under the build profile *)
Points(checks) ==
    { PointNew(q[1], q[2], q[3], q[4], checks).val :
        q \in { t \in OptCoords \X OptCoords \X Coords \X Coords :
                  IsOk(PointNew(t[1], t[2], t[3], t[4], checks)) } }

(* ------------------------------ machine ------------------------------- *)
NoCall == [op |-> "none"]

Init ==
    /\ overflow_checks \in BOOLEAN
    /\ call = NoCall
    /\ ret = Pending
    /\ pc = "idle"
    /\ exp = 0

CallNew ==
    /\ pc = "idle"
    /\ \E n \in PrimeInputs, p \in PrimeInputs :
          /\ call' = [op |-> "new", num |-> n, prime |-> p]
          /\ ret' = FiniteFieldNew(n, p)
    /\ pc' = "done"
    /\ UNCHANGED <<overflow_checks, exp>>

CallAdd ==
    /\ pc = "idle"
    /\ \E x \in Elements, y \in Elements :
          /\ call' = [op |-> "add", self |-> x, rhs |-> y]
          /\ ret' = FiniteFieldAdd(x, y, overflow_checks)
    /\ pc' = "done"
    /\ UNCHANGED <<overflow_checks, exp>>

CallSub ==
    /\ pc = "idle"
    /\ \E x \in Elements, y \in Elements :
          /\ call' = [op |-> "sub", self |-> x, rhs |-> y]
          /\ ret' = FiniteFieldSub(x, y, overflow_checks)
    /\ pc' = "done"
    /\ UNCHANGED <<overflow_checks, exp>>

CallMul ==
    /\ pc = "idle"
    /\ \E x \in Elements, y \in Elements :
          /\ call' = [op |-> "mul", self |-> x, rhs |-> y]
          /\ ret' = FiniteFieldMul(x, y, overflow_checks)
    /\ pc' = "done"
    /\ UNCHANGED <<overflow_checks, exp>>

(* FiniteField::pow entered: exp is its parameter *)
CallPow ==
    /\ pc = "idle"
    /\ \E x \in Elements, k \in I32s :
          /\ call' = [op |-> "pow", self |-> x, rhs |-> x, k |-> k]
          /\ exp' = k
    /\ ret' = Pending
    /\ pc' = "while"
    /\ UNCHANGED overflow_checks

(* impl Div: the field check, then pow(rhs, -1) is entered *)
CallDiv ==
    /\ pc = "idle"
    /\ \E x \in Elements, y \in Elements :
          /\ call' = [op |-> "div", self |-> x, rhs |-> y, k |-> 0 - 1]
          /\ IF x.prime # y.prime
             THEN /\ ret' = Panic("different fields")
                  /\ pc' = "done"
                  /\ exp' = exp
             ELSE /\ ret' = Pending
                  /\ pc' = "while"
                  /\ exp' = 0 - 1
    /\ UNCHANGED overflow_checks

(* what the caller of pow does with pow's outcome r *)
PowReturn(c, r, checks) ==
    IF c.op = "div" /\ IsOk(r) THEN FiniteFieldMul(c.self, r.val, checks)
    ELSE r

(* `while exp < 0`: enter the body, or leave the loop and finish *)
PowWhile ==
    /\ pc = "while"
    /\ IF exp < 0
       THEN /\ pc' = "body"
            /\ UNCHANGED <<ret, exp>>
       ELSE /\ pc' = "done"
            /\ ret' = PowReturn(call, PowFinish(call.rhs, exp, overflow_checks),
                                overflow_checks)
            /\ UNCHANGED exp
    /\ UNCHANGED <<overflow_checks, call>>

(* the loop body *)
PowBody ==
    /\ pc = "body"
    /\ LET r == PowBodyStep(call.rhs, exp, overflow_checks)
       IN  IF IsPanic(r)
           THEN /\ pc' = "done"
                /\ ret' = r
                /\ UNCHANGED exp
           ELSE /\ pc' = "while"
                /\ exp' = r.val
                /\ UNCHANGED ret
    /\ UNCHANGED <<overflow_checks, call>>

CallPointNew ==
    /\ pc = "idle"
    /\ \E x \in OptCoords, y \in OptCoords, a \in Coords, b \in Coords :
          /\ call' = [op |-> "point_new", x_opt |-> x, y_opt |-> y, a |-> a, b |-> b]
          /\ ret' = PointNew(x, y, a, b, overflow_checks)
    /\ pc' = "done"
    /\ UNCHANGED <<overflow_checks, exp>>

CallPointAdd ==
    /\ pc = "idle"
    /\ \E P \in Points(overflow_checks), Q \in Points(overflow_checks) :
          /\ call' = [op |-> "point_add", self |-> P, rhs |-> Q]
          /\ ret' = PointAdd(P, Q)
    /\ pc' = "done"
    /\ UNCHANGED <<overflow_checks, exp>>

(* the caller takes the outcome; the next call starts afresh *)
Return ==
    /\ pc = "done"
    /\ pc' = "idle"
    /\ call' = NoCall
    /\ ret' = Pending
    /\ exp' = 0
    /\ UNCHANGED overflow_checks

Next ==
    \/ CallNew
    \/ CallAdd
    \/ CallSub
    \/ CallMul
    \/ CallPow
    \/ CallDiv
    \/ PowWhile
    \/ PowBody
    \/ CallPointNew
    \/ CallPointAdd
    \/ Return

Spec == Init /\ [][Next]_vars

(* One call of pow, or of div and the pow it makes, run to its return: a    *)
(* sequential program keeps executing the call it has started.             *)
PowNext ==
    \/ CallPow
    \/ CallDiv
    \/ PowWhile
    \/ PowBody

PowSpec == Init /\ [][PowNext]_vars /\ WF_vars(PowWhile) /\ WF_vars(PowBody)

(* ----------------------- mathematics of the claims -------------------- *)
IsPrime(p) == p >= 2 /\ \A d \in 2 .. (p - 1) : p % d # 0

(* (b ^ e) mod p over the integers, e >= 0 *)
RECURSIVE ModPow(_, _, _)
ModPow(b, e, p) == IF e = 0 THEN 1 % p ELSE (ModPow(b, e - 1, p) * b) % p

(* k if k >= 0, else k plus the smallest multiple of p - 1 that makes it >= 0 *)
NormExp(k, p) == IF k >= 0 THEN k ELSE k % (p - 1)

IsInfinity(P) == IsNone(P.x_opt) /\ IsNone(P.y_opt)
SameCurve(P, Q) == P.a = Q.a /\ P.b = Q.b
Returned(op) == pc = "done" /\ call.op = op

(* ------------------------------- claims ------------------------------- *)

(* C1: point addition is total on a curve: for every two points with equal *)
(* (a, b), each infinity or on the curve, P + Q returns a point.            *)
C1_AddTotal ==
    (Returned("point_add") /\ SameCurve(call.self, call.rhs)) => IsOk(ret)

(* C2: the point at infinity is a two-sided identity: on one curve,         *)
(* P + I = P and I + P = P in x, y, a and b, also when P is I.              *)
C2_InfinityIdentity ==
    (Returned("point_add") /\ SameCurve(call.self, call.rhs)) =>
        /\ IsInfinity(call.rhs) => ret = Ok(call.self)
        /\ IsInfinity(call.self) => ret = Ok(call.rhs)

C2_Witness ==
    /\ Returned("point_add")
    /\ call.self = Pt(Some(1), Some(2), 0, 3)
    /\ call.rhs = Pt(None, None, 0, 3)
    /\ ret = Ok(Pt(Some(1), Some(2), 0, 3))

(* C3: adding points whose a or b differ always fails with the curve error, *)
(* whatever the operands, infinity included: the curve check comes first.   *)
C3_DifferentCurveFails ==
    (Returned("point_add") /\ ~SameCurve(call.self, call.rhs)) =>
        ret = Panic("not on the same curve")

C3_Witness ==
    /\ Returned("point_add")
    /\ call.self = Pt(None, None, 0, 3)
    /\ call.rhs = Pt(Some(1), Some(2), 1, 2)
    /\ IsPanic(ret)

(* C4: Point::new with both coordinates returns the point iff               *)
(* y^2 = x^3 + a*x + b and fails otherwise; with neither it returns         *)
(* infinity unchecked; with exactly one it fails.                           *)
C4_NewValidatesCurve ==
    Returned("point_new") =>
        LET P == Pt(call.x_opt, call.y_opt, call.a, call.b)
        IN  IF IsSome(call.x_opt) /\ IsSome(call.y_opt)
            THEN LET x == Unwrap(call.x_opt)
                     y == Unwrap(call.y_opt)
                 IN  IF y * y = (x * x * x) + (call.a * x) + call.b
                     THEN ret = Ok(P)
                     ELSE IsPanic(ret)
            ELSE IF IsNone(call.x_opt) /\ IsNone(call.y_opt)
            THEN ret = Ok(P)
            ELSE IsPanic(ret)

(* C5: FiniteField::new(value, modulus) returns the element exactly when    *)
(* modulus >= 2 and 0 <= value < modulus, and fails otherwise.              *)
C5_NewDomain ==
    Returned("new") =>
        IF call.prime >= 2 /\ call.num < call.prime
        THEN ret = Ok(FF(call.num, call.prime))
        ELSE IsPanic(ret)

(* C6: for equal moduli p, x + y, x - y and x * y return the element of     *)
(* modulus p with value (x op y) mod p, in 0 .. p - 1; for different moduli *)
(* each of the three fails.                                                 *)
C6_AddSubMul ==
    (pc = "done" /\ call.op \in {"add", "sub", "mul"}) =>
        LET x == call.self
            y == call.rhs
            p == x.prime
            v == IF call.op = "add" THEN (x.num + y.num) % p
                 ELSE IF call.op = "sub" THEN (x.num - y.num) % p
                 ELSE (x.num * y.num) % p
        IN  IF x.prime = y.prime THEN ret = Ok(FF(v, p)) ELSE IsPanic(ret)

(* C7: for a prime modulus p and every exponent k, e.pow(k) returns the     *)
(* element of modulus p with value (e.value ^ k') mod p, k' the normalised  *)
(* exponent.                                                                *)
C7_PowExact ==
    (Returned("pow") /\ IsPrime(call.self.prime)) =>
        LET p == call.self.prime
        IN  ret = Ok(FF(ModPow(call.self.num, NormExp(call.k, p), p), p))

(* C8: division inverts multiplication: for a prime modulus p and b # 0,    *)
(* a / b is the element c of the field with c * b = a.                      *)
C8_DivInvertsMul ==
    (Returned("div") /\ call.self.prime = call.rhs.prime
        /\ IsPrime(call.rhs.prime) /\ call.rhs.num # 0) =>
        /\ IsOk(ret)
        /\ ret.val.prime = call.rhs.prime
        /\ ret.val.num < call.rhs.prime
        /\ (ret.val.num * call.rhs.num) % call.rhs.prime = call.self.num

(* C9: division by the zero element fails, and so does division across       *)
(* different moduli.                                                        *)
C9_DivByZeroFails ==
    (Returned("div") /\ (call.rhs.num = 0 \/ call.self.prime # call.rhs.prime)) =>
        IsPanic(ret)

(* C10: pow terminates for every element new constructs and every exponent: *)
(* a call that has entered the loop returns (a value or an error); hence    *)
(* division terminates too.                                                 *)
C10_PowTerminates == (pc = "while") ~> (pc = "done")

====
